---- MODULE Spec2Model ----
(***************************************************************************)
(* Request-gating pipeline of the HTTP backend scaffold: the in-memory     *)
(* fixed-window rate limiter, the authentication / authorization /        *)
(* validation middlewares, and the error translator.                       *)
(*                                                                         *)
(* Node.js runs every synchronous middleware body to completion on one     *)
(* thread, so one action is one middleware invocation; concurrency is the  *)
(* interleaving of those invocations across the requests in flight (and,   *)
(* for requireAdmin, the split of the handler at its await).               *)
(*                                                                         *)
(* The specifications of the module:                                       *)
(*   SpecLimiter  the RateLimiter store driven by rateLimit middlewares    *)
(*                and by the periodic sweep                                *)
(*   SpecBurst    one key checked under one policy, millisecond by         *)
(*                millisecond                                              *)
(*   Spec         requests travelling the middleware chain to a response   *)
(*   SpecUtil     calls of the sanitization and validation utilities and   *)
(*                of single middlewares                                    *)
(*   SpecDb       calls of DatabaseConnection.connect()                    *)
(***************************************************************************)
EXTENDS Integers, Sequences, FiniteSets, TLC

VARIABLES
    now,        \* Date.now(), in milliseconds
    store,      \* RateLimiter.store : key -> RateLimitRecord | NoRecord
    win,        \* history: per key, the checks made since its record was last created
    rl,         \* history: outcome of the last rateLimit middleware invocation
    nodeEnv,    \* env.NODE_ENV, fixed at startup
    req,        \* pipeline spec: the request being served (Express req, res and its place in the chain)
    shadow,     \* history: the store as it would be had no sweep ever run
    log,        \* history: per millisecond, the checks admitted at it
    call,       \* utility spec: the last call of a utility function and what it returned
    db          \* database spec: the DatabaseConnection singleton and the connect() call in progress

limiterVars == <<now, store, win, rl, shadow>>
pipeVars == <<nodeEnv, req>>
utilVars == <<log, call, db>>
vars == <<now, store, win, rl, nodeEnv, req, shadow, log, call, db>>

-----------------------------------------------------------------------------
(* Bounds of the exploration *)

MaxLimit == 2
OtherWindowMs == 60000
BurstLimit == 2
BurstWindowMs == 2
MaxStrLen == 4
MaxConnectCalls == 4

(* Program constants *)

STRICT_MAX_REQUESTS == 5
STRICT_WINDOW_MS == 900000
HTTP_BAD_REQUEST == 400
HTTP_UNAUTHORIZED == 401
HTTP_FORBIDDEN == 403
HTTP_NOT_FOUND == 404
HTTP_CONFLICT == 409
HTTP_TOO_MANY_REQUESTS == 429
HTTP_INTERNAL_SERVER_ERROR == 500
MONGO_DUPLICATE_KEY == 11000
CLEANUP_INTERVAL_MS == 60000
MAX_RETRY_ATTEMPTS == 5

\* the instants at which the clock is observed: the start, the last millisecond of
\* a strict window opened at the start (any shorter window opened then is over),
\* and the first millisecond after it
Instants == {0, STRICT_WINDOW_MS, STRICT_WINDOW_MS + 1}

\* checks explored over all keys: enough for one more than the strict limit
MaxCalls == STRICT_MAX_REQUESTS + 1

Keys == {"ip1", "ip2"}

\* Math.ceil(a / b) for a >= 0, b > 0
CeilDiv(a, b) == (a + b - 1) \div b

Max(a, b) == IF a >= b THEN a ELSE b

-----------------------------------------------------------------------------
(* Error values (shared/utils/errors) *)

\* message strings are kept structured: the fixed text plus what is interpolated into it
Msg(text, secs, names) == [text |-> text, secs |-> secs, names |-> names]
PlainMsg(text) == Msg(text, 0, {})

NoDetails == [present |-> FALSE, items |-> <<>>]
Details(items) == [present |-> TRUE, items |-> items]

\* new AppError(message, statusCode, code, isOperational, details)
AppError(message, statusCode, code, isOperational, details) ==
    [cls |-> "AppError", name |-> "Error", statusCode |-> statusCode, code |-> code,
     isOperational |-> isOperational, message |-> message, details |-> details,
     errcode |-> 0]

ValidationError(message, details) ==
    AppError(message, HTTP_BAD_REQUEST, "VALIDATION_ERROR", TRUE, details)

AuthenticationError(message, code) ==
    AppError(message, HTTP_UNAUTHORIZED, code, TRUE, NoDetails)

AuthorizationError(message) ==
    AppError(message, HTTP_FORBIDDEN, "AUTH_FORBIDDEN", TRUE, NoDetails)

NotFoundError(message) ==
    AppError(message, HTTP_NOT_FOUND, "RESOURCE_NOT_FOUND", TRUE, NoDetails)

ConflictError(message) ==
    AppError(message, HTTP_CONFLICT, "RESOURCE_ALREADY_EXISTS", TRUE, NoDetails)

RateLimitError(message) ==
    AppError(message, HTTP_TOO_MANY_REQUESTS, "RATE_LIMIT_EXCEEDED", TRUE, NoDetails)

DatabaseError(message, details) ==
    AppError(message, HTTP_INTERNAL_SERVER_ERROR, "DATABASE_ERROR", TRUE, details)

\* a failure that is no AppError: a plain Error, a ZodError, a Mongoose / driver error
RawError(cls, name, errcode, message, details) ==
    [cls |-> cls, name |-> name, statusCode |-> 0, code |-> "", isOperational |-> FALSE,
     message |-> message, details |-> details, errcode |-> errcode]

\* "no error": the argument-less next()
NoError == RawError("None", "", 0, PlainMsg(""), NoDetails)

IsAppError(e) == e.cls = "AppError"

-----------------------------------------------------------------------------
(* RateLimiter (shared/middleware/rate-limit.middleware.ts) *)

NoRecord == [count |-> 0, resetTime |-> -1]

\* the guard of the first branch: !record || now > record.resetTime
WindowExpired(st, t, key) == st[key] = NoRecord \/ t > st[key].resetTime

LimitReachedOffByOne(record, maxRequests) == record.count > maxRequests

\* the guard of the second branch: record.count >= maxRequests
LimitReached(record, maxRequests) == record.count >= maxRequests

\* an admitted check of a running window sets the reset time again
isRateLimitedRearmsWindow(st, t, key, maxRequests, windowMs) ==
    IF WindowExpired(st, t, key)
    THEN [store |-> [st EXCEPT ![key] = [count |-> 1, resetTime |-> t + windowMs]],
          limited |-> FALSE]
    ELSE IF LimitReached(st[key], maxRequests)
         THEN [store |-> st, limited |-> TRUE]
         ELSE [store |-> [st EXCEPT ![key] = [count |-> @.count + 1, resetTime |-> t + windowMs]],
               limited |-> FALSE]

\* a rejected check is counted as well
isRateLimitedCountsRejected(st, t, key, maxRequests, windowMs) ==
    IF WindowExpired(st, t, key)
    THEN [store |-> [st EXCEPT ![key] = [count |-> 1, resetTime |-> t + windowMs]],
          limited |-> FALSE]
    ELSE IF LimitReached(st[key], maxRequests)
         THEN [store |-> [st EXCEPT ![key].count = @ + 1], limited |-> TRUE]
         ELSE [store |-> [st EXCEPT ![key].count = @ + 1], limited |-> FALSE]

\* the check that opens a window is not counted
isRateLimitedFirstUncounted(st, t, key, maxRequests, windowMs) ==
    IF WindowExpired(st, t, key)
    THEN [store |-> [st EXCEPT ![key] = [count |-> 0, resetTime |-> t + windowMs]],
          limited |-> FALSE]
    ELSE IF LimitReached(st[key], maxRequests)
         THEN [store |-> st, limited |-> TRUE]
         ELSE [store |-> [st EXCEPT ![key].count = @ + 1], limited |-> FALSE]

\* the increment of an admitted check is lost
isRateLimitedLostUpdate(st, t, key, maxRequests, windowMs) ==
    IF WindowExpired(st, t, key)
    THEN [store |-> [st EXCEPT ![key] = [count |-> 1, resetTime |-> t + windowMs]],
          limited |-> FALSE]
    ELSE IF LimitReached(st[key], maxRequests)
         THEN [store |-> st, limited |-> TRUE]
         ELSE [store |-> st, limited |-> FALSE]

\* isRateLimited(key, maxRequests, windowMs) at time t on store st:
\* the store it leaves and the boolean it returns
isRateLimited(st, t, key, maxRequests, windowMs) ==
    IF WindowExpired(st, t, key)
    THEN [store |-> [st EXCEPT ![key] = [count |-> 1, resetTime |-> t + windowMs]],
          limited |-> FALSE]
    ELSE IF LimitReached(st[key], maxRequests)
         THEN [store |-> st, limited |-> TRUE]
         ELSE [store |-> [st EXCEPT ![key].count = @ + 1], limited |-> FALSE]

getRemaining(st, t, key, maxRequests) ==
    IF WindowExpired(st, t, key) THEN maxRequests
    ELSE Max(0, maxRequests - st[key].count)

\* null is rendered as -1
getResetTime(st, t, key) ==
    IF WindowExpired(st, t, key) THEN -1 ELSE st[key].resetTime

\* a record is removed as soon as its reset time is reached
cleanupAtResetTime(st, t) ==
    [k \in DOMAIN st |-> IF st[k] # NoRecord /\ t >= st[k].resetTime THEN NoRecord ELSE st[k]]

\* cleanup() at time t: the store without the records whose reset time has passed
cleanup(st, t) ==
    [k \in DOMAIN st |-> IF st[k] # NoRecord /\ t > st[k].resetTime THEN NoRecord ELSE st[k]]

\* the policies of the rateLimit(...) middlewares that exist in the process:
\* strictRateLimit and limiters configured with other limits and windows
strictRateLimit == [maxRequests |-> STRICT_MAX_REQUESTS, windowMs |-> STRICT_WINDOW_MS]

Policies ==
    {strictRateLimit}
    \cup {[maxRequests |-> l, windowMs |-> w] : l \in 1..MaxLimit, w \in {OtherWindowMs}}

\* the error the middleware builds when the limiter rejects
RateLimitExceeded(windowMs) ==
    RateLimitError(Msg("Too many requests. Please try again after N seconds.",
                       CeilDiv(windowMs, 1000), {}))

\* the rejection branch does not return: next(error) is followed by next()
rateLimitRunFallsThrough(st, t, key, pol, skip) ==
    LET res == isRateLimited(st, t, key, pol.maxRequests, pol.windowMs)
    IN [store |-> res.store, skipped |-> skip, isLimited |-> res.limited,
        nextCalls |-> IF res.limited THEN 2 ELSE 1,
        nextErr |-> IF res.limited THEN RateLimitExceeded(pol.windowMs) ELSE NoError,
        hLimit |-> pol.maxRequests, hRemaining |-> 0, hReset |-> -1]

\* the middleware returned by rateLimit(options), run for a request with key `key`:
\* what it leaves in the store, how often and with what it calls next, the headers it sets
rateLimitRun(st, t, key, pol, skip) ==
    IF skip
    THEN [store |-> st, skipped |-> TRUE, isLimited |-> FALSE, nextCalls |-> 1,
          nextErr |-> NoError,
          hLimit |-> -1, hRemaining |-> -1, hReset |-> -1]
    ELSE LET res == isRateLimited(st, t, key, pol.maxRequests, pol.windowMs)
             remaining == getRemaining(res.store, t, key, pol.maxRequests)
             resetTime == getResetTime(res.store, t, key)
         IN [store |-> res.store, skipped |-> FALSE, isLimited |-> res.limited,
             nextCalls |-> 1,
             nextErr |-> IF res.limited THEN RateLimitExceeded(pol.windowMs) ELSE NoError,
             hLimit |-> pol.maxRequests, hRemaining |-> remaining,
             hReset |-> IF resetTime > 0 THEN CeilDiv(resetTime, 1000) ELSE -1]

-----------------------------------------------------------------------------------------------------------------------------------------------------------------------------------------------------------------------------
(* Tokens and identities (shared/types/auth.types.ts, shared/constants) *)

Roles == {"patient", "doctor", "admin"}

\* a credential as the codec sees it, issued for a subject, a role and a session:
\* "valid" is well signed with now <= exp, "expired" is well signed with now > exp,
\* "tampered" fails the signature check, "malformed" has a payload that does not parse
Token(kind, role) == [kind |-> kind, userId |-> "u1", role |-> role, sessionId |-> "s1"]
NoToken == [kind |-> "none", userId |-> "", role |-> "", sessionId |-> ""]
EmptyToken == [kind |-> "empty", userId |-> "", role |-> "", sessionId |-> ""]
Tokens ==
    {Token("valid", r) : r \in Roles}
    \cup {Token("expired", "doctor"), Token("tampered", "admin"), Token("malformed", "patient")}

\* the Authorization header: absent, another scheme, or "Bearer " followed by a token
NoHeader == [scheme |-> "none", token |-> NoToken]
BasicHeader == [scheme |-> "Basic", token |-> NoToken]
Bearer(t) == [scheme |-> "Bearer", token |-> t]
Headers == {NoHeader, BasicHeader} \cup {Bearer(t) : t \in Tokens \cup {EmptyToken}}
Cookies == {NoToken} \cup Tokens

\* a JavaScript falsy token: undefined, null or ""
Falsy(t) == t.kind \in {"none", "empty"}

NoUser == [present |-> FALSE, userId |-> "", role |-> "", sessionId |-> ""]
Decoded(t) == [present |-> TRUE, userId |-> t.userId, role |-> t.role, sessionId |-> t.sessionId]

\* jwtService.verifyAccessToken: the decoded claims, or the failure it throws
verifyAccessToken(t) ==
    IF t.kind = "valid" THEN [ok |-> TRUE, decoded |-> Decoded(t), error |-> NoError]
    ELSE IF t.kind = "expired"
    THEN [ok |-> FALSE, decoded |-> NoUser,
          error |-> AuthenticationError(PlainMsg("Token expired"), "AUTH_TOKEN_EXPIRED")]
    ELSE [ok |-> FALSE, decoded |-> NoUser,
          error |-> AuthenticationError(PlainMsg("Invalid token"), "AUTH_TOKEN_INVALID")]

-----------------------------------------------------------------------------
(* Admin records and permissions (middleware/admin) *)

Perms == {"permA", "permB"}
AdminRoles == {"super_admin", "admin"}

\* a permission map: every name is set to true, set to false, or missing
PermissionMaps == [Perms -> {"true", "false", "absent"}]

\* JavaScript truthiness of permissions[permission]
Truthy(v) == v = "true"

NoAdmin == [present |-> FALSE, adminRole |-> "", permissions |-> [p \in Perms |-> "absent"]]

\* what AdminModel.findById resolves to (or that it rejects)
AdminLookups ==
    {[outcome |-> "found", isActive |-> a, adminRole |-> ar, permissions |-> pm] :
        a \in BOOLEAN, ar \in AdminRoles, pm \in PermissionMaps}
    \cup {[outcome |-> o, isActive |-> FALSE, adminRole |-> "", permissions |-> [p \in Perms |-> "absent"]] :
        o \in {"null", "rejected"}}

\* how the answer of the store is remembered
LookupKind(found) ==
    IF found.outcome # "found" THEN found.outcome
    ELSE IF found.isActive THEN "active" ELSE "deactivated"

-----------------------------------------------------------------------------
(* Requests and routes *)

\* a route is a chain of gating middlewares in front of a handler:
\* strictRateLimit, authenticate, authorize(...roles), for admin routes
\* requireAdmin and requirePermission(perm), validate(schema), handler;
\* a public route has optionalAuth in the place of authenticate and authorize
Route(roles, admin, perm) ==
    [matched |-> TRUE, roles |-> roles, admin |-> admin, perm |-> perm, optional |-> FALSE]
NoRoute == [matched |-> FALSE, roles |-> {}, admin |-> FALSE, perm |-> "", optional |-> FALSE]
PublicRoute == [matched |-> TRUE, roles |-> {}, admin |-> FALSE, perm |-> "", optional |-> TRUE]
Routes ==
    {Route({"patient", "doctor"}, FALSE, ""), Route({"doctor"}, FALSE, ""), PublicRoute}
    \cup {Route({"admin"}, TRUE, p) : p \in Perms}

NoResponse == [sent |-> FALSE, status |-> 0, success |-> FALSE, message |-> PlainMsg(""),
               code |-> "", details |-> NoDetails, requestId |-> ""]

Order == <<"cors", "bodyParser", "requestLogger", "rateLimit", "authenticate", "authorize",
           "optionalAuth", "requireAdmin", "requirePermission", "validate", "handler">>
Gating == {"rateLimit", "authenticate", "authorize", "validate"}

Index(stage) == CHOOSE i \in 1..Len(Order) : Order[i] = stage

\* the stage is part of the chain express runs for the route
InChain(route, stage) ==
    IF stage \in {"cors", "bodyParser", "requestLogger"} THEN TRUE
    ELSE IF ~route.matched THEN FALSE
    ELSE IF stage \in {"requireAdmin", "requirePermission"} THEN route.admin
    ELSE IF stage \in {"authenticate", "authorize"} THEN ~route.optional
    ELSE IF stage = "optionalAuth" THEN route.optional
    ELSE TRUE

\* the stage express runs when `stage` calls next()
NextStage(route, stage) ==
    LET later == {i \in (Index(stage) + 1)..Len(Order) : InChain(route, Order[i])}
    IN IF later = {} THEN "notFound"
       ELSE Order[CHOOSE i \in later : \A j \in later : i <= j]

IdleRequest ==
    [pc |-> "idle", ip |-> "", route |-> NoRoute, presented |-> NoToken,
     correlationId |-> "", user |-> NoUser, admin |-> NoAdmin, validated |-> FALSE,
     lookup |-> "", body |-> "", err |-> NoError, res |-> NoResponse,
     last |-> "", conts |-> <<>>, ran |-> {}, failedAt |-> "", raised |-> NoError]

-----------------------------------------------------------------------------
(* Error translator (error-handler.middleware.ts, response.util.ts) *)

\* the status of the error is ignored
errorResponseAlways500(error, requestId) ==
    [sent |-> TRUE, status |-> HTTP_INTERNAL_SERVER_ERROR, success |-> FALSE,
     message |-> IF IsAppError(error) THEN error.message
                 ELSE PlainMsg("An unexpected error occurred"),
     code |-> IF IsAppError(error) THEN error.code ELSE "INTERNAL_ERROR",
     details |-> NoDetails, requestId |-> requestId]

\* errorResponse(res, error, requestId): the status and the body it sends
errorResponse(error, requestId) ==
    [sent |-> TRUE,
     status |-> IF IsAppError(error) THEN error.statusCode ELSE HTTP_INTERNAL_SERVER_ERROR,
     success |-> FALSE,
     message |-> IF IsAppError(error) THEN error.message
                 ELSE PlainMsg("An unexpected error occurred"),
     code |-> IF IsAppError(error) THEN error.code ELSE "INTERNAL_ERROR",
     details |-> IF IsAppError(error) /\ error.details.present THEN error.details ELSE NoDetails,
     requestId |-> requestId]

\* successResponse(res, message, data): meta carries no requestId
successResponse == [sent |-> TRUE, status |-> 200, success |-> TRUE, message |-> PlainMsg("OK"),
                    code |-> "", details |-> NoDetails, requestId |-> ""]

isOperationalError(error) == IF IsAppError(error) THEN error.isOperational ELSE FALSE

\* errorHandler(err, req, res, next)
errorHandler(err, correlationId, env) ==
    IF err.cls = "ZodError"
    THEN errorResponse(ValidationError(PlainMsg("Validation failed"), err.details), correlationId)
    ELSE IF err.name = "ValidationError"
    THEN errorResponse(ValidationError(err.message, NoDetails), correlationId)
    ELSE IF err.name = "CastError"
    THEN errorResponse(ValidationError(PlainMsg("Invalid ID format"), NoDetails), correlationId)
    ELSE IF err.name = "MongoServerError" /\ err.errcode = MONGO_DUPLICATE_KEY
    THEN errorResponse(ValidationError(PlainMsg("Resource already exists"), NoDetails), correlationId)
    ELSE IF IsAppError(err)
    THEN errorResponse(err, correlationId)
    ELSE IF ~isOperationalError(err) /\ env = "production"
    THEN errorResponse(AppError(PlainMsg("An unexpected error occurred"),
                                HTTP_INTERNAL_SERVER_ERROR, "INTERNAL_ERROR", TRUE, NoDetails),
                       correlationId)
    ELSE errorResponse(err, correlationId)

\* notFoundHandler: next(new AppError(`Route not found: ...`, 404))
RouteNotFound ==
    AppError(PlainMsg("Route not found"), HTTP_NOT_FOUND, "INTERNAL_ERROR", TRUE, NoDetails)

-----------------------------------------------------------------------------
(* Gating middlewares: each yields the request context it leaves and the
   arguments of the next(...) calls it makes, in order *)

Out(q, conts) == [q |-> q, conts |-> conts]

\* corsConfig: the origin callback rejects an origin that is not allowed
corsConfig(q, origin) ==
    IF origin = "other"
    THEN Out(q, <<RawError("Error", "Error", 0, PlainMsg("Not allowed by CORS"), NoDetails)>>)
    ELSE Out(q, <<NoError>>)

\* express.json(): a body that does not parse is passed to next as a SyntaxError
bodyParser(q, parses) ==
    IF parses THEN Out(q, <<NoError>>)
    ELSE Out(q, <<RawError("SyntaxError", "SyntaxError", 0, PlainMsg("Unexpected token"), NoDetails)>>)

\* requestLogger: req.correlationId = uuidv4()
requestLogger(q, uuid) == Out([q EXCEPT !.correlationId = uuid], <<NoError>>)

\* whatever the verifier throws is replaced by one kind of failure
authenticateOneKind(q, cookie, authorization) ==
    LET bearer == IF authorization.scheme = "Bearer" THEN authorization.token ELSE NoToken
        token == IF ~Falsy(cookie) THEN cookie ELSE bearer
        v == verifyAccessToken(token)
    IN IF Falsy(token)
       THEN Out([q EXCEPT !.presented = token],
                <<AuthenticationError(PlainMsg("No access token provided"), "AUTH_UNAUTHORIZED")>>)
       ELSE IF ~v.ok
       THEN Out([q EXCEPT !.presented = token],
                <<AuthenticationError(PlainMsg("Authentication failed"), "AUTH_UNAUTHORIZED")>>)
       ELSE Out([q EXCEPT !.presented = token, !.user = v.decoded], <<NoError>>)

\* authenticate
authenticate(q, cookie, authorization) ==
    LET bearer == IF authorization.scheme = "Bearer" THEN authorization.token ELSE NoToken
        token == IF ~Falsy(cookie) THEN cookie ELSE bearer
        v == verifyAccessToken(token)
    IN IF Falsy(token)
       THEN Out([q EXCEPT !.presented = token],
                <<AuthenticationError(PlainMsg("No access token provided"), "AUTH_UNAUTHORIZED")>>)
       ELSE IF ~v.ok
       THEN Out([q EXCEPT !.presented = token], <<v.error>>)
       ELSE Out([q EXCEPT !.presented = token, !.user = v.decoded], <<NoError>>)

\* the role is not compared
authorizeAnyRole(q, allowedRoles) ==
    IF ~q.user.present
    THEN Out(q, <<AuthenticationError(PlainMsg("Not authenticated"), "AUTH_UNAUTHORIZED")>>)
    ELSE Out(q, <<NoError>>)

\* the failure is passed on and the chain is continued as well
authorizeFallsThrough(q, allowedRoles) ==
    IF ~q.user.present
    THEN Out(q, <<AuthenticationError(PlainMsg("Not authenticated"), "AUTH_UNAUTHORIZED")>>)
    ELSE IF q.user.role \notin allowedRoles
    THEN Out(q, <<AuthorizationError(Msg("Access forbidden. Required roles:", 0, allowedRoles)),
                  NoError>>)
    ELSE Out(q, <<NoError>>)

\* authorize(...allowedRoles)
authorize(q, allowedRoles) ==
    IF ~q.user.present
    THEN Out(q, <<AuthenticationError(PlainMsg("Not authenticated"), "AUTH_UNAUTHORIZED")>>)
    ELSE IF q.user.role \notin allowedRoles
    THEN Out(q, <<AuthorizationError(Msg("Access forbidden. Required roles:", 0, allowedRoles))>>)
    ELSE Out(q, <<NoError>>)

\* the failure of the verifier is passed on
optionalAuthPropagates(q, authorization) ==
    IF authorization.scheme = "Bearer"
    THEN LET token == authorization.token
             v == verifyAccessToken(token)
         IN IF v.ok
            THEN Out([q EXCEPT !.presented = token, !.user = v.decoded], <<NoError>>)
            ELSE Out([q EXCEPT !.presented = token], <<v.error>>)
    ELSE Out(q, <<NoError>>)

\* optionalAuth: only the Authorization header is read; whatever the verifier
\* throws is caught and the chain continues without req.user
optionalAuth(q, authorization) ==
    IF authorization.scheme = "Bearer"
    THEN LET token == authorization.token
             v == verifyAccessToken(token)
         IN IF v.ok
            THEN Out([q EXCEPT !.presented = token, !.user = v.decoded], <<NoError>>)
            ELSE Out([q EXCEPT !.presented = token], <<NoError>>)
    ELSE Out(q, <<NoError>>)

\* requireAdmin up to its await: the checks made before the store is asked
requireAdminBefore(q) ==
    IF ~q.user.present
    THEN Out(q, <<AuthenticationError(PlainMsg("Not authenticated"), "AUTH_UNAUTHORIZED")>>)
    ELSE IF q.user.role # "admin"
    THEN Out(q, <<AuthorizationError(PlainMsg("Admin access required"))>>)
    ELSE Out(q, <<>>)

\* a deactivated record is attached like an active one
requireAdminAfterAttachesDeactivated(q, found) ==
    IF found.outcome = "rejected"
    THEN Out(q, <<RawError("Error", "MongoNetworkError", 0, PlainMsg("connection to db-host timed out"), NoDetails)>>)
    ELSE IF found.outcome = "null"
    THEN Out(q, <<AuthenticationError(PlainMsg("Admin account not found"), "AUTH_UNAUTHORIZED")>>)
    ELSE Out([q EXCEPT !.admin = [present |-> TRUE, adminRole |-> found.adminRole,
                                  permissions |-> found.permissions]],
             <<NoError>>)

\* requireAdmin after its await, with what AdminModel.findById gave
requireAdminAfter(q, found) ==
    IF found.outcome = "rejected"
    THEN Out(q, <<RawError("Error", "MongoNetworkError", 0, PlainMsg("connection to db-host timed out"), NoDetails)>>)
    ELSE IF found.outcome = "null"
    THEN Out(q, <<AuthenticationError(PlainMsg("Admin account not found"), "AUTH_UNAUTHORIZED")>>)
    ELSE IF ~found.isActive
    THEN Out(q, <<AuthorizationError(PlainMsg("Admin account is deactivated"))>>)
    ELSE Out([q EXCEPT !.admin = [present |-> TRUE, adminRole |-> found.adminRole,
                                  permissions |-> found.permissions]],
             <<NoError>>)

\* the super-admin bypass is missing
requirePermissionNoBypass(q, permission) ==
    IF ~q.admin.present
    THEN Out(q, <<AuthenticationError(PlainMsg("Admin authentication required"), "AUTH_UNAUTHORIZED")>>)
    ELSE IF ~Truthy(q.admin.permissions[permission])
    THEN Out(q, <<AuthorizationError(Msg("Permission denied. Required permission:", 0, {permission}))>>)
    ELSE Out(q, <<NoError>>)

\* only a permission set to false denies: a missing one is let through
requirePermissionMissingAllowed(q, permission) ==
    IF ~q.admin.present
    THEN Out(q, <<AuthenticationError(PlainMsg("Admin authentication required"), "AUTH_UNAUTHORIZED")>>)
    ELSE IF q.admin.adminRole = "super_admin"
    THEN Out(q, <<NoError>>)
    ELSE IF q.admin.permissions[permission] = "false"
    THEN Out(q, <<AuthorizationError(Msg("Permission denied. Required permission:", 0, {permission}))>>)
    ELSE Out(q, <<NoError>>)

\* requirePermission(permission)
requirePermission(q, permission) ==
    IF ~q.admin.present
    THEN Out(q, <<AuthenticationError(PlainMsg("Admin authentication required"), "AUTH_UNAUTHORIZED")>>)
    ELSE IF q.admin.adminRole = "super_admin"
    THEN Out(q, <<NoError>>)
    ELSE IF ~Truthy(q.admin.permissions[permission])
    THEN Out(q, <<AuthorizationError(Msg("Permission denied. Required permission:", 0, {permission}))>>)
    ELSE Out(q, <<NoError>>)

\* requireAdmin as a whole, for a request whose lookup is answered with `found`:
\* what it leaves and passes on, and whether the store was asked at all
requireAdmin(q, found) ==
    LET before == requireAdminBefore(q)
    IN IF before.conts # <<>>
       THEN [q |-> before.q, conts |-> before.conts, looked |-> FALSE]
       ELSE [q |-> requireAdminAfter(q, found).q, conts |-> requireAdminAfter(q, found).conts,
             looked |-> TRUE]

\* requireSuperAdmin
requireSuperAdmin(q) ==
    IF ~q.admin.present
    THEN Out(q, <<AuthenticationError(PlainMsg("Admin authentication required"), "AUTH_UNAUTHORIZED")>>)
    ELSE IF q.admin.adminRole # "super_admin"
    THEN Out(q, <<AuthorizationError(PlainMsg("Super admin access required"))>>)
    ELSE Out(q, <<NoError>>)

\* the issues zod reports for a body that violates the schema
Issues(body) ==
    IF body = "badEmail" THEN <<[field |-> "email", message |-> "Invalid email address"]>>
    ELSE <<[field |-> "email", message |-> "Invalid email address"],
           [field |-> "phone", message |-> "Invalid Indian mobile number"]>>

Bodies == {"missing", "valid", "badEmail", "badEmailAndPhone"}

\* validate({body: schema})
validate(q, body) ==
    IF body = "missing"
    THEN Out([q EXCEPT !.body = body],
             <<RawError("Error", "Error", 0, PlainMsg("Request body is required"), NoDetails)>>)
    ELSE IF body # "valid"
    THEN Out([q EXCEPT !.body = body],
             <<ValidationError(PlainMsg("Validation failed"), Details(Issues(body)))>>)
    ELSE Out([q EXCEPT !.body = body, !.validated = TRUE], <<NoError>>)

\* internal texts a failure of the business logic or of the storage driver may carry
Internals == {PlainMsg("E11000 dup key users.email"), PlainMsg("pool destroyed at db-host:27017")}

\* the failures a handler may pass on: the structured errors of the taxonomy,
\* plain errors, zod errors and Mongoose / driver errors
HandlerFailures ==
    {ValidationError(PlainMsg("Validation failed"), Details(Issues("badEmail"))),
     AuthenticationError(PlainMsg("Authentication failed"), "AUTH_UNAUTHORIZED"),
     AuthorizationError(PlainMsg("Access forbidden")),
     NotFoundError(PlainMsg("Resource not found")),
     ConflictError(PlainMsg("Resource already exists")),
     DatabaseError(PlainMsg("Database operation failed"), NoDetails),
     RawError("ZodError", "ZodError", 0, PlainMsg("zod"), Details(Issues("badEmail"))),
     RawError("Error", "CastError", 0, PlainMsg("Cast to ObjectId failed"), NoDetails)}
    \cup {AppError(m, HTTP_INTERNAL_SERVER_ERROR, "INTERNAL_ERROR", FALSE, NoDetails) : m \in Internals}
    \cup {RawError("Error", "Error", 0, m, NoDetails) : m \in Internals}
    \cup {RawError("Error", "ValidationError", 0, m, NoDetails) : m \in Internals}
    \cup {RawError("Error", "MongoServerError", c, m, NoDetails) :
            c \in {MONGO_DUPLICATE_KEY, 0}, m \in Internals}

-----------------------------------------------------------------------------
(* Sanitization and validation utilities (sanitization.util.ts, validation.util.ts) *)

\* a string is the sequence of its characters
Spaces == {" "}
UpperCase == {"J", "N", "O"}
LowerCase == {"a", "c", "i", "j", "n", "o", "p", "r", "s", "t", "v", "x"}

\* the class \w
WordChars == LowerCase \cup UpperCase \cup {"1", "_"}

\* the letter as the i flag compares it
ToLower(c) == IF c = "J" THEN "j" ELSE IF c = "N" THEN "n" ELSE IF c = "O" THEN "o" ELSE c

Drop(s, n) == SubSeq(s, n + 1, Len(s))

\* the length of the longest prefix of s made of characters of cs
RECURSIVE Run(_, _)
Run(s, cs) == IF s # <<>> /\ Head(s) \in cs THEN 1 + Run(Tail(s), cs) ELSE 0

\* .trim()
RECURSIVE TrimEnd(_)
TrimEnd(s) ==
    IF s # <<>> /\ s[Len(s)] \in Spaces THEN TrimEnd(SubSeq(s, 1, Len(s) - 1)) ELSE s

Trim(s) == TrimEnd(Drop(s, Run(s, Spaces)))

\* .replace(/[<>]/g, '')
NotAngle(c) == c \notin {"<", ">"}
RemoveAngles(s) == SelectSeq(s, NotAngle)

\* s starts with the lower-case pattern p, letters compared without case
StartsWithNoCase(s, p) == Len(s) >= Len(p) /\ \A i \in 1..Len(p) : ToLower(s[i]) = p[i]

JsProtocol == <<"j", "a", "v", "a", "s", "c", "r", "i", "p", "t", ":">>

\* .replace(/javascript:/gi, ''): one pass from the left, the scan resuming behind
\* each match
RECURSIVE RemoveJsProtocol(_)
RemoveJsProtocol(s) ==
    IF s = <<>> THEN <<>>
    ELSE IF StartsWithNoCase(s, JsProtocol) THEN RemoveJsProtocol(Drop(s, Len(JsProtocol)))
    ELSE <<Head(s)>> \o RemoveJsProtocol(Tail(s))

\* the length of the match of /on\w+\s*=/i at the start of s, 0 when there is none;
\* \w+ and \s* are greedy, and giving back a word character cannot help, because
\* what would follow it is a word character, neither a space nor "="
HandlerMatch(s) ==
    IF ~StartsWithNoCase(s, <<"o", "n">>) THEN 0
    ELSE LET w == Run(Drop(s, 2), WordChars)
             sp == Run(Drop(s, 2 + w), Spaces)
             end == 2 + w + sp + 1
         IN IF w >= 1 /\ Len(s) >= end /\ s[end] = "=" THEN end ELSE 0

\* .replace(/on\w+\s*=/gi, '')
RECURSIVE RemoveHandlers(_)
RemoveHandlers(s) ==
    IF s = <<>> THEN <<>>
    ELSE IF HandlerMatch(s) > 0 THEN RemoveHandlers(Drop(s, HandlerMatch(s)))
    ELSE <<Head(s)>> \o RemoveHandlers(Tail(s))

\* sanitizeString(input), for a string input
sanitizeString(input) == RemoveHandlers(RemoveJsProtocol(RemoveAngles(Trim(input))))

\* JSON-like values: strings, numbers, booleans, null, arrays and objects;
\* kids are the Object.entries of an array or object, in order
Str(s) == [t |-> "string", s |-> s, kids |-> <<>>]
Scalar(t) == [t |-> t, s |-> <<>>, kids |-> <<>>]
Entry(k, v) == [key |-> k, val |-> v]
Obj(entries) == [t |-> "object", s |-> <<>>, kids |-> entries]
Arr(items) ==
    [t |-> "array", s |-> <<>>,
     kids |-> [i \in 1..Len(items) |-> Entry(ToString(i - 1), items[i])]]

RECURSIVE sanitizeObject(_)

\* the callback of value.map(...): typeof item === 'object' holds for arrays too
sanitizeItem(item) ==
    IF item.t = "string" THEN Str(sanitizeString(item.s))
    ELSE IF item.t \in {"object", "array"} THEN sanitizeObject(item)
    ELSE item

\* the branches of the loop body of sanitizeObject
sanitizeValue(value) ==
    IF value.t = "string" THEN Str(sanitizeString(value.s))
    ELSE IF value.t = "object" THEN sanitizeObject(value)
    ELSE IF value.t = "array"
    THEN [value EXCEPT !.kids = [i \in 1..Len(value.kids) |->
                                    Entry(value.kids[i].key, sanitizeItem(value.kids[i].val))]]
    ELSE value

\* sanitizeObject(obj): a new plain object with the entries of obj, values sanitized
sanitizeObject(obj) ==
    Obj([i \in 1..Len(obj.kids) |-> Entry(obj.kids[i].key, sanitizeValue(obj.kids[i].val))])

\* the strings the exploration feeds to sanitizeString
SanChars == {" ", "<", "o", "n", "="}

StringsUpTo(n) == UNION {[1..m -> SanChars] : m \in 0..n}

SeedStrings ==
    {<<"j", "a", "v", "a", "j", "a", "v", "a", "s", "c", "r", "i", "p", "t", ":",
       "s", "c", "r", "i", "p", "t", ":">>,
     <<"J", "a", "v", "a", "S", "c", "r", "i", "p", "t", ":", "x">>,
     <<"o", "O", "N", "x", " ", "=", "n", "x", "=">>,
     <<" ", "<", "a", ">", " ">>,
     <<"j", "a", "v", "<", "a", "s", "c", "r", "i", "p", "t", ":">>}

StringInputs == StringsUpTo(MaxStrLen) \cup SeedStrings

\* the values the exploration feeds to sanitizeObject
LeafStrings == {<<"a">>, <<"<", "b", ">">>, <<"<", " ", "a">>}
Leaves == {Str(s) : s \in LeafStrings} \cup {Scalar(t) : t \in {"number", "boolean", "null"}}
SmallObjects == {Obj(<<Entry("k", v)>>) : v \in Leaves}
Arrays ==
    {Arr(<<x>>) : x \in Leaves \cup SmallObjects}
    \cup {Arr(<<x, y>>) : x \in Leaves, y \in Leaves}
    \cup {Arr(<<Arr(<<x>>)>>) : x \in Leaves}
Values == Leaves \cup SmallObjects \cup Arrays
ObjectInputs ==
    {Obj(<<Entry("a", v)>>) : v \in Values}
    \cup {Obj(<<Entry("a", v), Entry("b", w)>>) : v \in Values, w \in Leaves}
    \cup Arrays

\* zod schemas by the fields they constrain; a schema with an async refinement
\* cannot be parsed synchronously
Schemas == {"email", "contact", "asyncRefined"}
SchemaFields(schema) == IF schema = "email" THEN {"email"} ELSE {"email", "phone"}
DataInputs == {"valid", "badEmail", "badEmailAndPhone"}

\* schema.parse(data): the parsed value, a ZodError with the issues found (at least
\* one), or another error
parse(schema, data) ==
    LET InSchema(issue) == issue.field \in SchemaFields(schema)
    IN IF schema = "asyncRefined"
       THEN [kind |-> "error", value |-> "", issues |-> <<>>]
       ELSE IF data = "valid"
       THEN [kind |-> "ok", value |-> data, issues |-> <<>>]
       ELSE [kind |-> "zod", value |-> "", issues |-> SelectSeq(Issues(data), InSchema)]

\* validateSchema(schema, data): what it returns, or what it throws
validateSchema(schema, data) ==
    LET r == parse(schema, data)
    IN IF r.kind = "ok" THEN [returned |-> TRUE, value |-> r.value, thrown |-> NoError]
       ELSE IF r.kind = "zod"
       THEN [returned |-> FALSE, value |-> "",
             thrown |-> ValidationError(PlainMsg("Validation failed"), Details(r.issues))]
       ELSE [returned |-> FALSE, value |-> "",
             thrown |-> RawError("Error", "Error", 0,
                                 PlainMsg("Async refinement encountered during synchronous parse operation"),
                                 NoDetails)]

\* an error that is no ZodError is thrown on
safeValidateRethrows(schema, data) ==
    LET r == parse(schema, data)
    IN IF r.kind = "ok"
       THEN [thrown |-> FALSE, success |-> TRUE, hasData |-> TRUE, data |-> r.value,
             hasErrors |-> FALSE, errors |-> <<>>]
       ELSE IF r.kind = "zod"
       THEN [thrown |-> FALSE, success |-> FALSE, hasData |-> FALSE, data |-> "",
             hasErrors |-> TRUE, errors |-> r.issues]
       ELSE [thrown |-> TRUE, success |-> FALSE, hasData |-> FALSE, data |-> "",
             hasErrors |-> FALSE, errors |-> <<>>]

\* safeValidate(schema, data): the tagged value it returns
safeValidate(schema, data) ==
    LET r == parse(schema, data)
    IN IF r.kind = "ok"
       THEN [thrown |-> FALSE, success |-> TRUE, hasData |-> TRUE, data |-> r.value,
             hasErrors |-> FALSE, errors |-> <<>>]
       ELSE IF r.kind = "zod"
       THEN [thrown |-> FALSE, success |-> FALSE, hasData |-> FALSE, data |-> "",
             hasErrors |-> TRUE, errors |-> r.issues]
       ELSE [thrown |-> FALSE, success |-> FALSE, hasData |-> FALSE, data |-> "",
             hasErrors |-> TRUE,
             errors |-> <<[field |-> "unknown", message |-> "Validation failed"]>>]

-----------------------------------------------------------------------------
(* History kept for the limiter's properties *)

\* per key, since its record was last created: n checks were made, adm of them
\* admitted, all with limit lim (lim = 0 once two different limits were used)
NoWindow == [n |-> 0, adm |-> 0, lim |-> 0]

WinAfter(w, fresh, pol, limited) ==
    IF fresh THEN [n |-> 1, adm |-> 1, lim |-> pol.maxRequests]
    ELSE [n |-> w.n + 1, adm |-> w.adm + (IF limited THEN 0 ELSE 1),
          lim |-> IF pol.maxRequests = w.lim THEN w.lim ELSE 0]

\* the instants of the millisecond-by-millisecond exploration: long enough for
\* three windows to start
MaxTime == 2 * BurstWindowMs + 2

NoLog == [t \in 0..MaxTime |-> 0]

NoCall == [fn |-> "", arg |-> <<>>, out |-> <<>>]

\* the DatabaseConnection singleton as constructed (isConnected = false,
\* connectionAttempts = 0), no connect() in progress; history: the calls made so
\* far, the attempts that failed in the current call, how the call ended
NewDatabaseConnection ==
    [isConnected |-> FALSE, connectionAttempts |-> 0,
     pc |-> "idle", calls |-> 0, failed |-> 0, how |-> ""]

NoRun == [key |-> "", pol |-> strictRateLimit, at |-> -1, was |-> "",
          skipped |-> TRUE, isLimited |-> FALSE, nextCalls |-> 0,
          nextErr |-> NoError]

\* what the check found for its key: no record, a record whose window is over,
\* or a record whose window is running
Found(record, t) ==
    IF record = NoRecord THEN "nothing"
    ELSE IF t > record.resetTime THEN "elapsed" ELSE "running"

\* the history after the middleware of policy `pol` ran for a request of key `k`
RunRecord(k, pol, out) ==
    [key |-> k, pol |-> pol, at |-> now,
     was |-> IF out.skipped THEN "" ELSE Found(store[k], now),
     skipped |-> out.skipped, isLimited |-> out.isLimited,
     nextCalls |-> out.nextCalls, nextErr |-> out.nextErr]

-----------------------------------------------------------------------------
(* Limiter specification: requests of any key reach any rateLimit middleware. *)
(* Requests in flight at the same time are served one middleware run after   *)
(* the other, in any order: every interleaving is a sequence of RateLimit    *)
(* steps.                                                                    *)

\* the module-level `new RateLimiter()`: an empty store
EmptyLimiter ==
    /\ now = 0
    /\ store = [k \in Keys |-> NoRecord]
    /\ shadow = [k \in Keys |-> NoRecord]
    /\ win = [k \in Keys |-> NoWindow]
    /\ rl = NoRun
    /\ log = NoLog

InitLimiter ==
    /\ EmptyLimiter
    /\ nodeEnv = "production"
    /\ req = IdleRequest
    /\ call = NoCall
    /\ db = NewDatabaseConnection

\* checks made in the current windows, over all keys
ChecksMade == win["ip1"].n + win["ip2"].n

\* the clock advances between two event-loop turns
Tick ==
    /\ \E t \in Instants : t > now /\ now' = t
    /\ UNCHANGED <<store, win, rl, shadow>>

\* a request of client `k` runs the rateLimit middleware of policy `pol`, to completion
RateLimit(k, pol, skip) ==
    LET fresh == Found(store[k], now) # "running"
        out == rateLimitRun(store, now, k, pol, skip)
    IN /\ (fresh \/ ChecksMade < MaxCalls)
       /\ rl' = RunRecord(k, pol, out)
       /\ store' = out.store
       /\ shadow' = rateLimitRun(shadow, now, k, pol, skip).store
       /\ win' = IF out.skipped THEN win
                 ELSE [win EXCEPT ![k] = WinAfter(@, fresh, pol, out.isLimited)]
       /\ UNCHANGED now

\* the interval timer of the constructor fires and cleanup() runs, to completion;
\* the history of a removed record ends, and the last thing that happened to the
\* store is no middleware run any more
Cleanup ==
    /\ now >= CLEANUP_INTERVAL_MS
    /\ store' = cleanup(store, now)
    /\ win' = [k \in Keys |-> IF store'[k] = NoRecord THEN NoWindow ELSE win[k]]
    /\ rl' = NoRun
    /\ UNCHANGED <<now, shadow>>

NextLimiter ==
    \/ Tick /\ UNCHANGED <<pipeVars, utilVars>>
    \/ \E k \in Keys, pol \in Policies : RateLimit(k, pol, FALSE) /\ UNCHANGED <<pipeVars, utilVars>>
    \/ \E k \in Keys, pol \in Policies \ {strictRateLimit} :
          RateLimit(k, pol, TRUE) /\ UNCHANGED <<pipeVars, utilVars>>
    \/ Cleanup /\ UNCHANGED <<pipeVars, utilVars>>

SpecLimiter == InitLimiter /\ [][NextLimiter]_vars

-----------------------------------------------------------------------------
(* Burst specification: the requests of one client reach one rateLimit        *)
(* middleware, and the clock is followed millisecond by millisecond           *)

BurstPolicy == [maxRequests |-> BurstLimit, windowMs |-> BurstWindowMs]

InitBurst ==
    /\ EmptyLimiter
    /\ nodeEnv = "production"
    /\ req = IdleRequest
    /\ call = NoCall
    /\ db = NewDatabaseConnection

\* a millisecond passes
BurstTick ==
    /\ now < MaxTime
    /\ now' = now + 1
    /\ UNCHANGED <<store, win, rl, shadow, log>>

\* the client's request runs the middleware; an admitted check is logged at its instant
BurstCheck ==
    /\ RateLimit("ip1", BurstPolicy, FALSE)
    /\ log' = IF rl'.isLimited THEN log ELSE [log EXCEPT ![now] = @ + 1]

NextBurst ==
    \/ BurstTick /\ UNCHANGED <<pipeVars, call, db>>
    \/ BurstCheck /\ UNCHANGED <<pipeVars, call, db>>

SpecBurst == InitBurst /\ [][NextBurst]_vars

-----------------------------------------------------------------------------
(* Properties of the limiter *)

\* the last middleware run consulted the limiter
Checked == rl.key \in Keys /\ ~rl.skipped

\* every check of the current window of the last run's key used that run's limit
SameLimit == win[rl.key].lim = rl.pol.maxRequests

\* C1: with one limit L for a key, the first L checks of a window are admitted and
\* the (L+1)th is rejected; a check that finds no record or an elapsed window is
\* admitted and leaves count = 1, resetTime = now + W
FixedWindowAdmitsUpToLimit ==
    Checked =>
        /\ (SameLimit /\ win[rl.key].n <= rl.pol.maxRequests) => ~rl.isLimited
        /\ (SameLimit /\ win[rl.key].n = rl.pol.maxRequests + 1) => rl.isLimited
        /\ rl.was \in {"nothing", "elapsed"} =>
              /\ ~rl.isLimited
              /\ store[rl.key] = [count |-> 1, resetTime |-> rl.at + rl.pol.windowMs]

\* C1 witness: a key went through L admitted checks, a rejected (L+1)th, and a
\* later check that found the window elapsed and started the next one
WindowFilledThenReset ==
    /\ Checked /\ rl.was = "elapsed" /\ ~rl.isLimited
    /\ store[rl.key].count = 1
    /\ \E k \in Keys \ {rl.key} :
          win[k].lim > 0 /\ win[k].n = win[k].lim + 1 /\ win[k].adm = win[k].lim

\* C2: whatever the order in which the requests sharing a key and a limit L run
\* the middleware, at most L of them are admitted between two resets of the key
AtMostLimitAdmittedPerWindow ==
    \A k \in Keys : win[k].lim > 0 => win[k].adm <= win[k].lim

\* C2 witness: more requests than the limit reached the key in one window; exactly
\* L were admitted and the last one was rejected
ContendedWindowHoldsLimit ==
    /\ Checked /\ SameLimit /\ rl.isLimited
    /\ win[rl.key].n > win[rl.key].lim
    /\ win[rl.key].adm = win[rl.key].lim
    /\ store[rl.key].count = win[rl.key].lim

\* C3: the middleware calls next exactly once; on rejection with one RateLimitError
\* (429, RATE_LIMIT_EXCEEDED) whose message carries the window length in seconds,
\* otherwise without error; under the strict policy {5, 900000} the first 5
\* requests of a window pass and the 6th gets the 429
RejectionIsOneRateLimitError ==
    rl.key \in Keys =>
        /\ rl.nextCalls = 1
        /\ ~rl.isLimited => rl.nextErr = NoError
        /\ rl.isLimited =>
              /\ IsAppError(rl.nextErr)
              /\ rl.nextErr.statusCode = 429
              /\ rl.nextErr.code = "RATE_LIMIT_EXCEEDED"
              /\ rl.nextErr.message.secs * 1000 >= rl.pol.windowMs
              /\ (rl.nextErr.message.secs - 1) * 1000 < rl.pol.windowMs
        /\ (Checked /\ rl.pol = strictRateLimit /\ SameLimit) =>
              /\ win[rl.key].n <= 5 => rl.nextErr = NoError
              /\ win[rl.key].n = 6 =>
                    rl.nextErr.statusCode = 429 /\ rl.nextErr.message.secs = 900

\* C3 witness: the 6th request of a strict window was rejected with the error
SixthStrictRequestRejected ==
    /\ Checked /\ rl.pol = strictRateLimit /\ SameLimit
    /\ win[rl.key].n = 6 /\ win[rl.key].adm = 5
    /\ rl.isLimited /\ rl.nextErr.statusCode = 429

\* the record a check made now would work on: the stored one while its window runs
Effective(st, k) == IF Found(st[k], now) = "running" THEN st[k] ELSE NoRecord

\* C17: the sweep removes only records whose reset time has passed, and however it
\* is interleaved with the checks, every check decides as it would have without any
\* sweep and leaves the same count and reset time for its key
SweepKeepsDecisions ==
    \A k \in Keys :
        /\ store[k] \in {shadow[k], NoRecord}
        /\ store[k] # shadow[k] => now > shadow[k].resetTime
        /\ Effective(store, k) = Effective(shadow, k)
        /\ \A pol \in Policies :
              LET with == isRateLimited(store, now, k, pol.maxRequests, pol.windowMs)
                  without == isRateLimited(shadow, now, k, pol.maxRequests, pol.windowMs)
              IN with.limited = without.limited /\ with.store[k] = without.store[k]

\* C17 witness: the sweep removed the elapsed record of one key while the window of
\* another key, already counting several checks, was running
SweptBesideRunningWindow ==
    \E k \in Keys :
        /\ store[k] = NoRecord /\ shadow[k] # NoRecord
        /\ \E other \in Keys \ {k} :
              Found(store[other], now) = "running" /\ store[other].count >= 2

\* the step is a check of key k that found a running window
CheckOfRunning(k) ==
    /\ rl'.key = k /\ ~rl'.skipped /\ rl'.was = "running"
    /\ win'[k].n = win[k].n + 1

\* C19: a rejected check leaves the whole store as it was, the record of its key
\* included; so with one limit L for a key, its count never exceeds L
RejectedCheckChangesNothing ==
    /\ [](\A k \in Keys : win[k].lim > 0 => store[k].count <= win[k].lim)
    /\ [][\A k \in Keys : (CheckOfRunning(k) /\ rl'.isLimited) => store' = store]_vars

\* C19 witness: a key at its limit was checked again and again, and was rejected
\* with its count still at the limit while another key holds a record
RejectedTwiceAtLimit ==
    /\ Checked /\ SameLimit /\ rl.isLimited
    /\ win[rl.key].n >= win[rl.key].lim + 2
    /\ store[rl.key].count = win[rl.key].lim
    /\ \E other \in Keys \ {rl.key} : store[other] # NoRecord

\* C20: the middlewares of all policies work on the one record of a key: its count
\* is the number of checks admitted since it was created, whatever their policy, a
\* check compares that count with its own limit, and the reset time stays the one
\* set by the check that created the record
OneStoreForAllPolicies ==
    /\ [](\A k \in Keys : store[k] # NoRecord => store[k].count = win[k].adm)
    /\ [][\A k \in Keys : CheckOfRunning(k) =>
              /\ store'[k].resetTime = store[k].resetTime
              /\ rl'.isLimited <=> store[k].count >= rl'.pol.maxRequests
              /\ store'[k].count = store[k].count + (IF rl'.isLimited THEN 0 ELSE 1)]_vars

\* C20 witness: a record created by the strict limiter made a limiter of another
\* policy reject a request, within the strict window and beyond the other's own
QuotaConsumedAcrossPolicies ==
    /\ Checked /\ rl.isLimited /\ rl.pol # strictRateLimit
    /\ win[rl.key].lim = 0
    /\ win[rl.key].adm < STRICT_MAX_REQUESTS
    /\ store[rl.key].resetTime = STRICT_WINDOW_MS
    /\ rl.at + rl.pol.windowMs < store[rl.key].resetTime

\* the checks admitted at the instants a..b
RECURSIVE AdmittedIn(_, _)
AdmittedIn(a, b) == IF a > b THEN 0 ELSE log[a] + AdmittedIn(a + 1, b)

Min(a, b) == IF a <= b THEN a ELSE b

\* C18: with one policy (L, W) for a key, no interval of length W holds more than
\* 2*L admitted checks
BurstAtMostTwiceLimit ==
    \A a \in 0..MaxTime : AdmittedIn(a, Min(a + BurstWindowMs, MaxTime)) <= 2 * BurstLimit

\* C18 witness: an interval of length W that straddles the start of a window holds
\* the checks admitted at the end of one window and a full next window
BurstAcrossBoundary ==
    \E a \in 0..(MaxTime - BurstWindowMs) :
        /\ AdmittedIn(a, a + BurstWindowMs) = 2 * BurstLimit - 1
        /\ store["ip1"].count = BurstLimit
        /\ store["ip1"].resetTime - BurstWindowMs \in (a + 1)..(a + BurstWindowMs)

-----------------------------------------------------------------------------
(* Pipeline specification: requests travel the chain createApp installs and the
   chain of the route they match, to a response *)

Init ==
    /\ EmptyLimiter
    /\ nodeEnv \in {"development", "production", "test"}
    /\ req = IdleRequest
    /\ call = NoCall
    /\ db = NewDatabaseConnection

\* express moves on: to the next stage of the chain after next(), to the error
\* handler after next(error); the history notes what the stage did
Dispatch(stage, out) ==
    LET c == Head(out.conts)
        failed == c # NoError
    IN [out.q EXCEPT
          !.pc = IF failed THEN "errorHandler" ELSE NextStage(out.q.route, stage),
          !.err = IF failed THEN c ELSE @,
          !.last = stage,
          !.conts = out.conts,
          !.ran = @ \cup {stage},
          !.failedAt = IF failed /\ @ = "" THEN stage ELSE @,
          !.raised = IF failed /\ out.q.failedAt = "" THEN c ELSE @]

frame == UNCHANGED <<now, store, win, rl, nodeEnv, shadow, log, call, db>>

\* a request arrives; its path selects a route or none
Arrive ==
    /\ req.pc = "idle"
    /\ \E route \in Routes \cup {NoRoute} :
          req' = [IdleRequest EXCEPT !.pc = "cors", !.ip = "ip1", !.route = route]
    /\ frame

Cors ==
    /\ req.pc = "cors"
    /\ \E origin \in {"none", "allowed", "other"} : req' = Dispatch("cors", corsConfig(req, origin))
    /\ frame

BodyParser ==
    /\ req.pc = "bodyParser"
    /\ \E parses \in BOOLEAN : req' = Dispatch("bodyParser", bodyParser(req, parses))
    /\ frame

RequestLogger ==
    /\ req.pc = "requestLogger"
    /\ req' = Dispatch("requestLogger", requestLogger(req, "uuid"))
    /\ frame

NotFound ==
    /\ req.pc = "notFound"
    /\ req' = Dispatch("notFound", Out(req, <<RouteNotFound>>))
    /\ frame

\* the route's strictRateLimit, keyed by req.ip
RateLimitStage ==
    /\ req.pc = "rateLimit"
    /\ LET run == rateLimitRun(store, now, req.ip, strictRateLimit, FALSE)
       IN /\ store' = run.store
          /\ req' = Dispatch("rateLimit",
                             Out(req, [i \in 1..run.nextCalls |-> IF i = 1 THEN run.nextErr ELSE NoError]))
    /\ UNCHANGED <<now, win, rl, nodeEnv, shadow, log, call, db>>

Authenticate ==
    /\ req.pc = "authenticate"
    /\ \E cookie \in Cookies, authorization \in Headers :
          req' = Dispatch("authenticate", authenticate(req, cookie, authorization))
    /\ frame

OptionalAuth ==
    /\ req.pc = "optionalAuth"
    /\ \E authorization \in Headers :
          req' = Dispatch("optionalAuth", optionalAuth(req, authorization))
    /\ frame

Authorize ==
    /\ req.pc = "authorize"
    /\ req' = Dispatch("authorize", authorize(req, req.route.roles))
    /\ frame

\* requireAdmin runs up to its await, or fails before it
RequireAdmin ==
    /\ req.pc = "requireAdmin"
    /\ LET out == requireAdminBefore(req)
       IN req' = IF out.conts = <<>>
                 THEN [req EXCEPT !.pc = "awaitAdmin", !.last = "requireAdmin",
                                  !.conts = <<>>, !.ran = @ \cup {"requireAdmin"}]
                 ELSE Dispatch("requireAdmin", out)
    /\ frame

\* the store answers and requireAdmin resumes; the history notes the answer
AdminLookup ==
    /\ req.pc = "awaitAdmin"
    /\ \E found \in AdminLookups :
          req' = [Dispatch("requireAdmin", requireAdminAfter(req, found))
                    EXCEPT !.lookup = LookupKind(found)]
    /\ frame

RequirePermission ==
    /\ req.pc = "requirePermission"
    /\ req' = Dispatch("requirePermission", requirePermission(req, req.route.perm))
    /\ frame

Validate ==
    /\ req.pc = "validate"
    /\ \E body \in Bodies : req' = Dispatch("validate", validate(req, body))
    /\ frame

\* the business logic answers, or passes a failure on
Handler ==
    /\ req.pc = "handler"
    /\ \/ req' = [req EXCEPT !.pc = "sent", !.res = successResponse, !.last = "handler",
                             !.conts = <<>>, !.ran = @ \cup {"handler"}]
       \/ \E e \in HandlerFailures : req' = Dispatch("handler", Out(req, <<e>>))
    /\ frame

\* the global error handler translates the failure and sends the response
ErrorHandler ==
    /\ req.pc = "errorHandler"
    /\ req' = [req EXCEPT !.pc = "sent",
                          !.res = errorHandler(req.err, req.correlationId, nodeEnv),
                          !.last = "errorHandler", !.conts = <<>>,
                          !.ran = @ \cup {"errorHandler"}]
    /\ frame

\* the exchange is over
Finish ==
    /\ req.pc = "sent"
    /\ req' = IdleRequest
    /\ frame

Next ==
    \/ Tick /\ UNCHANGED <<pipeVars, utilVars>>
    \/ Arrive
    \/ Cors
    \/ BodyParser
    \/ RequestLogger
    \/ NotFound
    \/ RateLimitStage
    \/ Authenticate
    \/ OptionalAuth
    \/ Authorize
    \/ RequireAdmin
    \/ AdminLookup
    \/ RequirePermission
    \/ Validate
    \/ Handler
    \/ ErrorHandler
    \/ Finish

Spec == Init /\ [][Next]_vars

-----------------------------------------------------------------------------
(* Properties of the pipeline *)

\* position of a stage in the chain; the 404 handler stands where the route would
Rank(stage) ==
    IF stage \in {Order[i] : i \in 1..Len(Order)} THEN Index(stage)
    ELSE IF stage = "notFound" THEN Index("requestLogger") + 1
    ELSE Len(Order) + 1

After(stage) == {s \in {Order[i] : i \in 1..Len(Order)} : Rank(s) > Rank(stage)}

ErrorSent == req.pc = "sent" /\ ~req.res.success

\* C4: behind authenticate and authorize(allowedRoles), a request without credential
\* ends with 401 AUTH_UNAUTHORIZED, one with a valid token of another role with a 403
\* whose message lists the allowed roles, and in both cases no later stage runs; one
\* with a valid token of an allowed role is passed on with the decoded identity
RoleGate ==
    /\ ("authenticate" \in req.ran /\ Falsy(req.presented)) =>
          /\ req.failedAt = "authenticate"
          /\ req.raised.statusCode = 401 /\ req.raised.code = "AUTH_UNAUTHORIZED"
          /\ req.ran \cap After("authenticate") = {}
          /\ ~req.user.present
          /\ req.pc = "sent" => (req.res.status = 401 /\ req.res.code = "AUTH_UNAUTHORIZED")
    /\ ("authorize" \in req.ran /\ req.presented.kind = "valid"
            /\ req.presented.role \notin req.route.roles) =>
          /\ req.failedAt = "authorize"
          /\ req.raised.statusCode = 403
          /\ req.raised.message.names = req.route.roles
          /\ req.ran \cap After("authorize") = {}
          /\ req.pc = "sent" => (req.res.status = 403 /\ req.res.message.names = req.route.roles)
    /\ ("authorize" \in req.ran /\ req.presented.kind = "valid"
            /\ req.presented.role \in req.route.roles) =>
          /\ req.failedAt # "authorize"
          /\ req.user = Decoded(req.presented)
          /\ req.last = "authorize" =>
                /\ req.err = NoError
                /\ req.pc = NextStage(req.route, "authorize")
                /\ ~req.route.admin => req.pc = "validate"

\* C4 witness: a valid token of a role the route does not allow was answered 403
WrongRoleAnswered403 ==
    /\ req.pc = "sent" /\ req.res.status = 403
    /\ req.failedAt = "authorize"
    /\ req.presented.kind = "valid" /\ req.presented.role \notin req.route.roles

\* C5: for a resolved admin whose role is super_admin, requirePermission(p) continues
\* without error whatever the permission map says about p
SuperAdminBypass ==
    (req.last = "requirePermission" /\ req.admin.present /\ req.admin.adminRole = "super_admin") =>
        /\ req.conts = <<NoError>>
        /\ req.pc = "validate"
        /\ req.failedAt = ""

\* C5 witness: a super admin passed a permission its map does not grant
SuperAdminPassedUngranted ==
    /\ req.last = "requirePermission" /\ req.pc = "validate"
    /\ req.admin.adminRole = "super_admin"
    /\ req.admin.permissions[req.route.perm] # "true"

\* C6: for a resolved admin of another role, requirePermission(p) continues exactly
\* when the map has p set to true; otherwise it passes on a 403 that names p
PermissionMapDecides ==
    (req.last = "requirePermission" /\ req.admin.present /\ req.admin.adminRole # "super_admin") =>
        /\ (req.conts = <<NoError>>) <=> (req.admin.permissions[req.route.perm] = "true")
        /\ req.admin.permissions[req.route.perm] # "true" =>
              /\ Len(req.conts) = 1
              /\ req.conts[1].statusCode = 403
              /\ req.conts[1].message.names = {req.route.perm}
              /\ req.pc = "errorHandler"
              /\ req.failedAt = "requirePermission"

\* C6 witness: an admin without super role was denied a permission missing from its map
MissingPermissionDenied ==
    /\ req.last = "requirePermission" /\ req.pc = "errorHandler"
    /\ req.admin.present /\ req.admin.adminRole # "super_admin"
    /\ req.admin.permissions[req.route.perm] = "absent"
    /\ req.err.statusCode = 403

\* the status the table fixes for the kind of a structured error
TableStatus(code) ==
    IF code = "VALIDATION_ERROR" THEN 400
    ELSE IF code \in {"AUTH_UNAUTHORIZED", "AUTH_TOKEN_INVALID", "AUTH_TOKEN_EXPIRED"} THEN 401
    ELSE IF code = "AUTH_FORBIDDEN" THEN 403
    ELSE IF code = "RESOURCE_NOT_FOUND" THEN 404
    ELSE IF code = "RESOURCE_ALREADY_EXISTS" THEN 409
    ELSE IF code = "RATE_LIMIT_EXCEEDED" THEN 429
    ELSE 500

TableCodes == {"VALIDATION_ERROR", "AUTH_UNAUTHORIZED", "AUTH_TOKEN_INVALID", "AUTH_TOKEN_EXPIRED",
               "AUTH_FORBIDDEN", "RESOURCE_NOT_FOUND", "RESOURCE_ALREADY_EXISTS",
               "RATE_LIMIT_EXCEEDED", "DATABASE_ERROR"}

\* a failure the translator knows nothing about: no AppError, no zod error, none of
\* the Mongoose errors it looks for
Unrecognized(e) ==
    /\ ~IsAppError(e)
    /\ e.cls # "ZodError"
    /\ e.name \notin {"ValidationError", "CastError"}
    /\ ~(e.name = "MongoServerError" /\ e.errcode = MONGO_DUPLICATE_KEY)

Unanticipated(e) ==
    \/ IsAppError(e) /\ ~e.isOperational
    \/ ~IsAppError(e) /\ e.cls # "ZodError"

\* C8: in production the response to a non-operational or unclassified failure
\* carries nothing of the failure's internal message: it is the same for two such
\* failures that differ in that message only
ProductionHidesInternals ==
    (nodeEnv = "production" /\ ErrorSent /\ Unanticipated(req.err)) =>
        req.res.message \notin Internals

\* C9: every error response carries the correlation identifier of its request
ErrorResponseHasRequestId ==
    ErrorSent => req.res.requestId # ""

\* C10: a gating stage calls its continuation exactly once; after the first failure
\* no later stage and no handler runs, and the error handler gets that failure
ShortCircuit ==
    /\ req.last \in Gating => Len(req.conts) = 1
    /\ req.failedAt # "" =>
          /\ req.ran \cap After(req.failedAt) = {}
          /\ req.pc \in {"errorHandler", "sent"}
          /\ req.err = req.raised
          /\ req.err # NoError
    /\ req.pc = "errorHandler" => req.failedAt # ""
    /\ (req.pc = "sent" /\ req.failedAt # "") =>
          req.res = errorHandler(req.raised, req.correlationId, nodeEnv)

\* C10 witness: authenticate failed, and the response was sent without any later
\* stage having run
FailedAuthenticationSkippedRest ==
    /\ req.pc = "sent" /\ req.failedAt = "authenticate"
    /\ req.ran = {"cors", "bodyParser", "requestLogger", "rateLimit", "authenticate", "errorHandler"}

\* C11: optionalAuth never passes a failure on: whatever the Authorization header
\* holds (nothing, another scheme, an empty, malformed, expired or tampered token)
\* it calls next() once without error; req.user is the decoded identity when the
\* token verified and is left unset otherwise
OptionalAuthNeverFails ==
    "optionalAuth" \in req.ran =>
        /\ req.failedAt # "optionalAuth"
        /\ req.user.present <=> req.presented.kind = "valid"
        /\ req.user.present => req.user = Decoded(req.presented)
        /\ req.last = "optionalAuth" =>
              /\ req.conts = <<NoError>>
              /\ req.err = NoError
              /\ req.pc = "validate"

\* C11 witness: an expired bearer token went through optionalAuth, and the request
\* reached the next stage without identity
ExpiredTokenProceedsUnauthenticated ==
    /\ req.last = "optionalAuth" /\ req.pc = "validate"
    /\ req.presented.kind = "expired"
    /\ ~req.user.present /\ req.err = NoError

\* the failure requirePermission(p) passes on for an admin whose map lacks p
PermissionDenial(p) ==
    Head(requirePermission([IdleRequest EXCEPT !.admin = [present |-> TRUE, adminRole |-> "admin",
                                                          permissions |-> [x \in Perms |-> "absent"]]],
                           p).conts)

\* C12: the response to a request whose admin record is deactivated has another
\* error code than the response to a permission denial
DeactivatedKindDistinct ==
    (ErrorSent /\ req.lookup = "deactivated") =>
        req.res.code # errorHandler(PermissionDenial(req.route.perm), req.correlationId, nodeEnv).code

\* C13: when the lookup of requireAdmin fails, the handler does not run and the
\* response is the storage failure: status 500 with code DATABASE_ERROR
LookupFailureIsStorageFailure ==
    req.lookup = "rejected" =>
        /\ "handler" \notin req.ran
        /\ ErrorSent => (req.res.status = 500 /\ req.res.code = "DATABASE_ERROR")

\* C14: a token with now > exp fails verification as expired, one whose signature
\* or payload is bad as invalid, and a valid one yields the issued subject, role and
\* session; authenticate passes the verifier's failure on as it is, without identity
TokenKindsForwarded ==
    "authenticate" \in req.ran =>
        /\ req.presented.kind = "expired" =>
              /\ req.failedAt = "authenticate" /\ ~req.user.present
              /\ req.raised = verifyAccessToken(req.presented).error
              /\ req.raised.statusCode = 401 /\ req.raised.code = "AUTH_TOKEN_EXPIRED"
              /\ req.pc = "sent" => (req.res.status = 401 /\ req.res.code = "AUTH_TOKEN_EXPIRED")
        /\ req.presented.kind \in {"tampered", "malformed"} =>
              /\ req.failedAt = "authenticate" /\ ~req.user.present
              /\ req.raised = verifyAccessToken(req.presented).error
              /\ req.raised.statusCode = 401 /\ req.raised.code = "AUTH_TOKEN_INVALID"
              /\ req.pc = "sent" => (req.res.status = 401 /\ req.res.code = "AUTH_TOKEN_INVALID")
        /\ req.presented.kind = "valid" =>
              /\ req.failedAt # "authenticate"
              /\ req.user.present
              /\ req.user.userId = req.presented.userId
              /\ req.user.role = req.presented.role
              /\ req.user.sessionId = req.presented.sessionId

\* C14 witness: an expired token was answered 401 with the expired kind
ExpiredTokenAnswered ==
    /\ req.pc = "sent" /\ req.failedAt = "authenticate"
    /\ req.presented.kind = "expired"
    /\ req.res.code = "AUTH_TOKEN_EXPIRED" /\ ~req.user.present

\* C22: a request without body on a route whose validate has a body schema does not
\* reach the handler and is answered as a validation failure: status 400,
\* VALIDATION_ERROR
MissingBodyIsClientError ==
    ("validate" \in req.ran /\ req.body = "missing") =>
        /\ "handler" \notin req.ran
        /\ ErrorSent => (req.res.status = 400 /\ req.res.code = "VALIDATION_ERROR")

-----------------------------------------------------------------------------
(* Utility specification: the sanitization and validation functions, and single
   middlewares, are called with every input of the exploration *)

\* the identities and admin contexts a request may carry into a middleware
Users == {NoUser} \cup {Decoded(t) : t \in {x \in Tokens : x.kind = "valid"}}
Admins ==
    {NoAdmin}
    \cup {[present |-> TRUE, adminRole |-> ar, permissions |-> pm] :
            ar \in AdminRoles, pm \in PermissionMaps}

InitUtil ==
    /\ EmptyLimiter
    /\ nodeEnv = "production"
    /\ req = IdleRequest
    /\ call = NoCall
    /\ db = NewDatabaseConnection

utilFrame == UNCHANGED <<now, store, win, rl, shadow, nodeEnv, req, log, db>>

CallSanitizeString ==
    /\ call = NoCall
    /\ \E s \in StringInputs :
          call' = [fn |-> "sanitizeString", arg |-> s, out |-> sanitizeString(s)]
    /\ utilFrame

CallSanitizeObject ==
    /\ call = NoCall
    /\ \E x \in ObjectInputs :
          call' = [fn |-> "sanitizeObject", arg |-> x, out |-> sanitizeObject(x)]
    /\ utilFrame

CallValidateSchema ==
    /\ call = NoCall
    /\ \E schema \in Schemas, data \in DataInputs :
          call' = [fn |-> "validateSchema", arg |-> <<schema, data>>,
                   out |-> validateSchema(schema, data)]
    /\ utilFrame

CallSafeValidate ==
    /\ call = NoCall
    /\ \E schema \in Schemas, data \in DataInputs :
          call' = [fn |-> "safeValidate", arg |-> <<schema, data>>,
                   out |-> safeValidate(schema, data)]
    /\ utilFrame

\* authenticate, for a request with the given cookie and Authorization header
CallAuthenticate ==
    /\ call = NoCall
    /\ \E cookie \in Cookies, authorization \in Headers :
          call' = [fn |-> "authenticate",
                   arg |-> [cookie |-> cookie, authorization |-> authorization],
                   out |-> authenticate(IdleRequest, cookie, authorization)]
    /\ utilFrame

\* requireAdmin, for a request with the given req.user and answer of the store
CallRequireAdmin ==
    /\ call = NoCall
    /\ \E user \in Users, found \in AdminLookups :
          call' = [fn |-> "requireAdmin", arg |-> [user |-> user, found |-> found],
                   out |-> requireAdmin([IdleRequest EXCEPT !.user = user], found)]
    /\ utilFrame

\* requirePermission(permission), for a request with the given req.admin
CallRequirePermission ==
    /\ call = NoCall
    /\ \E admin \in Admins, permission \in Perms :
          call' = [fn |-> "requirePermission", arg |-> [admin |-> admin, permission |-> permission],
                   out |-> requirePermission([IdleRequest EXCEPT !.admin = admin], permission)]
    /\ utilFrame

\* requireSuperAdmin, for a request with the given req.admin
CallRequireSuperAdmin ==
    /\ call = NoCall
    /\ \E admin \in Admins :
          call' = [fn |-> "requireSuperAdmin", arg |-> [admin |-> admin, permission |-> ""],
                   out |-> requireSuperAdmin([IdleRequest EXCEPT !.admin = admin])]
    /\ utilFrame

\* the caller is done with the result
Return ==
    /\ call # NoCall
    /\ call' = NoCall
    /\ utilFrame

NextUtil ==
    \/ CallSanitizeString
    \/ CallSanitizeObject
    \/ CallValidateSchema
    \/ CallSafeValidate
    \/ CallAuthenticate
    \/ CallRequireAdmin
    \/ CallRequirePermission
    \/ CallRequireSuperAdmin
    \/ Return

SpecUtil == InitUtil /\ [][NextUtil]_vars

\* C15: sanitizing what was sanitized changes nothing, for strings and for objects
\* and arrays
SanitizeIdempotent ==
    /\ call.fn = "sanitizeString" => sanitizeString(call.out) = call.out
    /\ call.fn = "sanitizeObject" => sanitizeObject(call.out) = call.out

\* C16: safeValidate does not throw; it returns either success with the parsed value
\* or failure with at least one {field, message}, in the order of the issues, and
\* never both or neither; it succeeds exactly when validateSchema returns
SafeValidateIsTotal ==
    call.fn = "safeValidate" =>
        LET o == call.out
            v == validateSchema(call.arg[1], call.arg[2])
        IN /\ ~o.thrown
           /\ o.success => (o.hasData /\ ~o.hasErrors /\ o.data = v.value)
           /\ ~o.success =>
                 /\ ~o.hasData /\ o.hasErrors /\ Len(o.errors) >= 1
                 /\ \A i \in 1..Len(o.errors) : DOMAIN o.errors[i] = {"field", "message"}
           /\ o.success <=> v.returned
           /\ (~o.success /\ IsAppError(v.thrown)) => o.errors = v.thrown.details.items

\* C16 witness: for an error that is no ZodError, where validateSchema throws the raw
\* error, safeValidate returned a failure with one entry
NonZodFailureTagged ==
    /\ call.fn = "safeValidate" /\ ~call.out.success /\ ~call.out.thrown
    /\ call.out.errors = <<[field |-> "unknown", message |-> "Validation failed"]>>
    /\ ~IsAppError(validateSchema(call.arg[1], call.arg[2]).thrown)

\* C23: whenever authenticate attaches an identity to a request, optionalAuth
\* attaches the same identity to that request
CredentialSourcesAgree ==
    (call.fn = "authenticate" /\ call.out.q.user.present) =>
        optionalAuth(IdleRequest, call.arg.authorization).q.user = call.out.q.user

\* C24: requireAdmin attaches req.admin exactly when req.user is an admin whose
\* record was found and is active, and otherwise passes one error on with
\* req.admin unset, a missing or non-admin user without asking the store;
\* requirePermission and requireSuperAdmin pass an error on when req.admin is unset
AdminContextOnlyWhenChecked ==
    /\ call.fn = "requireAdmin" =>
          LET user == call.arg.user
              found == call.arg.found
              o == call.out
          IN /\ o.q.admin.present <=>
                    /\ user.present /\ user.role = "admin"
                    /\ found.outcome = "found" /\ found.isActive
             /\ o.q.admin.present =>
                    /\ o.conts = <<NoError>>
                    /\ o.q.admin.adminRole = found.adminRole
                    /\ o.q.admin.permissions = found.permissions
             /\ ~o.q.admin.present =>
                    (Len(o.conts) = 1 /\ o.conts[1] # NoError /\ o.q.admin = NoAdmin)
             /\ (~user.present \/ user.role # "admin") => ~o.looked
    /\ (call.fn \in {"requirePermission", "requireSuperAdmin"} /\ ~call.arg.admin.present) =>
          /\ Len(call.out.conts) = 1
          /\ call.out.conts[1].statusCode = 401
    /\ call.fn = "requireSuperAdmin" =>
          (call.out.conts = <<NoError>>) <=>
              (call.arg.admin.present /\ call.arg.admin.adminRole = "super_admin")

\* C24 witness: requireAdmin found the record of an admin deactivated, passed a 403
\* on and attached nothing
DeactivatedAdminNotAttached ==
    /\ call.fn = "requireAdmin" /\ call.out.looked
    /\ call.arg.found.outcome = "found" /\ ~call.arg.found.isActive
    /\ call.out.q.admin = NoAdmin
    /\ call.out.conts[1].statusCode = 403

-----------------------------------------------------------------------------
(* Database specification: connect() is called on the singleton, one call at a
   time; a call is split at its awaits *)

InitDb ==
    /\ EmptyLimiter
    /\ nodeEnv = "production"
    /\ req = IdleRequest
    /\ call = NoCall
    /\ db = NewDatabaseConnection

dbFrame == UNCHANGED <<now, store, win, rl, shadow, nodeEnv, req, log, call>>

\* the entry of connect(), from a caller or from the retry: return when already
\* connected, otherwise await mongoose.connect
connectEntry(d) ==
    IF d.isConnected THEN [d EXCEPT !.pc = "returned", !.how = "already"]
    ELSE [d EXCEPT !.pc = "connecting"]

\* the catch block of connect(): count the attempt, then retry after the delay or throw
connectFailed(d) ==
    LET attempts == d.connectionAttempts + 1
    IN IF attempts < MAX_RETRY_ATTEMPTS
       THEN [d EXCEPT !.connectionAttempts = attempts, !.failed = @ + 1, !.pc = "delaying"]
       ELSE [d EXCEPT !.connectionAttempts = attempts, !.failed = @ + 1, !.pc = "thrown",
                      !.how = "gave up"]

\* a caller calls database.connect()
Connect ==
    /\ db.pc = "idle" /\ db.calls < MaxConnectCalls
    /\ db' = connectEntry([db EXCEPT !.calls = @ + 1, !.failed = 0, !.how = ""])
    /\ dbFrame

\* mongoose.connect resolves
ConnectSucceeds ==
    /\ db.pc = "connecting"
    /\ db' = [db EXCEPT !.isConnected = TRUE, !.connectionAttempts = 0,
                        !.pc = "returned", !.how = "connected"]
    /\ dbFrame

\* mongoose.connect rejects
ConnectFails ==
    /\ db.pc = "connecting"
    /\ db' = connectFailed(db)
    /\ dbFrame

\* the retry delay is over: return this.connect()
DelayElapsed ==
    /\ db.pc = "delaying"
    /\ db' = connectEntry(db)
    /\ dbFrame

\* the caller has the outcome of its call
ConnectEnds ==
    /\ db.pc \in {"returned", "thrown"}
    /\ db' = [db EXCEPT !.pc = "idle"]
    /\ dbFrame

\* the 'disconnected' or 'error' event of the connection, between two calls
ConnectionLost ==
    /\ db.pc = "idle" /\ db.isConnected
    /\ db' = [db EXCEPT !.isConnected = FALSE]
    /\ dbFrame

NextDb ==
    \/ Connect
    \/ ConnectSucceeds
    \/ ConnectFails
    \/ DelayElapsed
    \/ ConnectEnds
    \/ ConnectionLost

SpecDb == InitDb /\ [][NextDb]_vars

\* C21: a call of connect() on a not-connected instance ends connected with
\* connectionAttempts = 0, or throws after exactly MAX_RETRY_ATTEMPTS failed
\* attempts of that call, whatever happened in earlier calls
ConnectRetriesPerCall ==
    /\ (db.pc = "returned" /\ db.how = "connected") =>
          (db.isConnected /\ db.connectionAttempts = 0)
    /\ db.pc = "thrown" => db.failed = MAX_RETRY_ATTEMPTS

====
